---- MODULE Spec2Model ----
(***************************************************************************)
(* A model of the recursive matcher of nikis_grep (src/src/matcher.rs):    *)
(* match_from, match_atom and count over the Atom / Quantifier data model  *)
(* of src/src/pattern.rs.  An Option<usize> is modelled as a set: None is  *)
(* the empty set and Some(n) is {n}.  A character is a one-character       *)
(* string.  The state machine walks the tree of nested match_from calls    *)
(* that one top-level call match_from(input, pattern, 0, true) makes.      *)
(* The compiler of src/src/parser.rs is a second state machine, SpecParse, *)
(* that reads a pattern text character by character.                       *)
(***************************************************************************)
EXTENDS Integers, Sequences, FiniteSets, TLC

VARIABLES input, pattern, chars, ptrn, pos, allow_unmatched, depth, site,
          begun, done, result,
          text, input_chars, mode, in_group, body, group, prim, char_class,
          is_positive, opened, event, outcome

\* The state of the matcher and the state of the compiler.
matcher_vars == <<input, pattern, chars, ptrn, pos, allow_unmatched, depth,
                  site, begun, done, result>>

parser_vars == <<text, input_chars, mode, in_group, body, group, prim,
                 char_class, is_positive, opened, event, outcome>>

vars == <<matcher_vars, parser_vars>>

-----------------------------------------------------------------------------
(* Bounds of the explored inputs and patterns.                             *)

MaxInputLen == 4
MaxLit == 2
MaxExact == 3
MaxBranches == 3
MaxGen == 2
MaxExt == 1

\* The characters of the input lines and of the pattern literals.
Alphabet == {"a", "b"}

-----------------------------------------------------------------------------
(* Option<usize>                                                           *)

None == {}
Some(n) == {n}
IsSome(o) == o # {}
Unwrap(o) == CHOOSE n \in o : TRUE

-----------------------------------------------------------------------------
(* Atom and Quantifier (src/src/pattern.rs)                                *)

FromStart == [kind |-> "FromStart"]
ToEnd == [kind |-> "ToEnd"]
Digit == [kind |-> "Digit"]
W == [kind |-> "W"]
AnyChar == [kind |-> "Any"]
Literal(c) == [kind |-> "Literal", c |-> c]
ClassSeq(cc, positive) == [kind |-> "Seq", cc |-> cc, positive |-> positive]
AltGroup(alternatives) == [kind |-> "AltGroup", alternatives |-> alternatives]

Exact(atom) == [q |-> "Exact", atom |-> atom]
OneOrMore(atom) == [q |-> "OneOrMore", atom |-> atom]
ZeroOrOne(atom) == [q |-> "ZeroOrOne", atom |-> atom]

get_atom(quantifier) == quantifier.atom

-----------------------------------------------------------------------------
(* char::is_ascii_digit and char::is_ascii_alphabetic                      *)

AsciiDigit == {"0", "1", "2", "3", "4", "5", "6", "7", "8", "9"}

AsciiAlphabetic ==
    {"a", "b", "c", "d", "e", "f", "g", "h", "i", "j", "k", "l", "m",
     "n", "o", "p", "q", "r", "s", "t", "u", "v", "w", "x", "y", "z",
     "A", "B", "C", "D", "E", "F", "G", "H", "I", "J", "K", "L", "M",
     "N", "O", "P", "Q", "R", "S", "T", "U", "V", "W", "X", "Y", "Z"}

-----------------------------------------------------------------------------
(* match_atom (matcher.rs 117-140)                                         *)

RECURSIVE match_atom(_, _)

\* Mutant of match_atom: the polarity of a class is ignored.
match_atom_IgnoresPolarity(in_char, atom) ==
    LET found ==
          CASE atom.kind = "Digit" -> in_char \in AsciiDigit
            [] atom.kind = "Literal" -> atom.c = in_char
            [] atom.kind = "W" ->
                 \/ in_char \in AsciiDigit
                 \/ in_char \in AsciiAlphabetic
                 \/ in_char = "_"
            [] atom.kind = "Seq" ->
                 \E i \in 1..Len(atom.cc) :
                     IsSome(match_atom(in_char, atom.cc[i]))
            [] atom.kind = "Any" -> in_char # "\n"
            [] OTHER -> FALSE
    IN  IF found THEN Some(1) ELSE None

match_atom(in_char, atom) ==
    LET found ==
          CASE atom.kind = "Digit" -> in_char \in AsciiDigit
            [] atom.kind = "Literal" -> atom.c = in_char
            [] atom.kind = "W" ->
                 \/ in_char \in AsciiDigit
                 \/ in_char \in AsciiAlphabetic
                 \/ in_char = "_"
            [] atom.kind = "Seq" ->
                 LET mtch == \E i \in 1..Len(atom.cc) :
                                 IsSome(match_atom(in_char, atom.cc[i]))
                 IN  IF atom.positive THEN mtch ELSE ~mtch
            [] atom.kind = "Any" -> in_char # "\n"
            [] OTHER -> FALSE
    IN  IF found THEN Some(1) ELSE None

-----------------------------------------------------------------------------
(* count (matcher.rs 142-159)                                              *)

RECURSIVE count(_, _, _)

\* Mutant of count: the lookahead also stops at the atom being counted.
count_StopsAtSameAtom(cs, current, maybe_next) ==
    IF cs = <<>> \/ ~IsSome(match_atom(cs[1], current))
    THEN Some(0)
    ELSE IF /\ Len(cs) > 1
            /\ \E next \in maybe_next : IsSome(match_atom(cs[2], next))
         THEN Some(1)
         ELSE {c + 1 : c \in count(Tail(cs), current, maybe_next)}

count(cs, current, maybe_next) ==
    IF cs = <<>> \/ ~IsSome(match_atom(cs[1], current))
    THEN Some(0)
    ELSE IF /\ Len(cs) > 1
            /\ \E next \in maybe_next :
                  next # current /\ IsSome(match_atom(cs[2], next))
         THEN Some(1)
         ELSE {c + 1 : c \in count(Tail(cs), current, maybe_next)}

\* pattern.get(1).map(|q| q.get_atom())
MaybeNext(p) == IF Len(p) > 1 THEN {get_atom(p[2])} ELSE {}

\* &chars[n..]
SliceFrom(cs, n) == SubSeq(cs, n + 1, Len(cs))

\* The atoms of the first arm of match_from's Exact case (matcher.rs 25).
IsCharAtom(atom) == atom.kind \in {"Digit", "W", "Literal", "Any", "Seq"}

-----------------------------------------------------------------------------
(* match_from (matcher.rs 3-115), one operator per arm of its match.       *)

RECURSIVE match_from(_, _, _, _)

\* The arguments of a nested call, and the value the nested call returns.
Args(cs, p, ps, allow) ==
    [chars |-> cs, pattern |-> p, pos |-> ps, allow_unmatched |-> allow]

Invoke(call) ==
    match_from(call.chars, call.pattern, call.pos, call.allow_unmatched)

\* Mutant of ExactMatchedCall: the caller's skip flag is passed on.
ExactMatchedCall_KeepsSkip(cs, p, ps, allow) ==
    Args(Tail(cs), Tail(p), ps + 1, allow)

\* matcher.rs 27: match_from(&chars[1..], &pattern[1..], pos + 1, false)
ExactMatchedCall(cs, p, ps, allow) ==
    Args(Tail(cs), Tail(p), ps + 1, FALSE)

\* matcher.rs 32: match_from(&chars[1..], pattern, pos + 1, true)
ExactSkipCall(cs, p, ps, allow) ==
    Args(Tail(cs), p, ps + 1, TRUE)

\* Mutant of FromStartCall: the caller's skip flag is passed on.
FromStartCall_KeepsSkip(cs, p, ps, allow) ==
    Args(cs, Tail(p), ps + 1, allow)

\* Mutant of FromStartCall: the anchor is not taken off the pattern.
FromStartCall_KeepsPattern(cs, p, ps, allow) ==
    Args(cs, p, ps + 1, FALSE)

\* matcher.rs 37: match_from(chars, &pattern[1..], pos + 1, false)
FromStartCall(cs, p, ps, allow) ==
    Args(cs, Tail(p), ps + 1, FALSE)

\* matcher.rs 54-59: match_from(chars, first_alt ++ rest, pos, false)
AltFirstCall(cs, p, ps, allow) ==
    Args(cs, get_atom(p[1]).alternatives[1] \o Tail(p), ps, FALSE)

\* matcher.rs 63-67: match_from(chars, next_alt ++ rest, pos, false)
AltSecondCall(cs, p, ps, allow) ==
    Args(cs, get_atom(p[1]).alternatives[2] \o Tail(p), ps, FALSE)

\* matcher.rs 83 and 87:
\* match_from(&chars[consumed..], &pattern[1..], pos + consumed, false)
OneOrMoreRestCall(cs, p, ps, allow, consumed) ==
    Args(SliceFrom(cs, consumed), Tail(p), ps + consumed, FALSE)

\* matcher.rs 91: match_from(&chars[1..], pattern, pos + 1, true)
OneOrMoreSkipCall(cs, p, ps, allow) ==
    Args(Tail(cs), p, ps + 1, TRUE)

\* matcher.rs 101:
\* match_from(&chars[consumed..], &pattern[1..], pos + consumed, false)
ZeroOrOneRestCall(cs, p, ps, allow, consumed) ==
    Args(SliceFrom(cs, consumed), Tail(p), ps + consumed, FALSE)

\* matcher.rs 103: match_from(&chars[1..], pattern, pos + 1, true)
ZeroOrOneSkipCall(cs, p, ps, allow) ==
    Args(Tail(cs), p, ps + 1, TRUE)

\* Exact(Digit | W | Literal | Any | Seq), matcher.rs 25-34.
ExactCharArm(cs, p, ps, allow) ==
    IF IsSome(match_atom(cs[1], get_atom(p[1])))
    THEN {1 + consumed :
             consumed \in Invoke(ExactMatchedCall(cs, p, ps, allow))}
    ELSE IF ~allow
         THEN None
         ELSE Invoke(ExactSkipCall(cs, p, ps, allow))

\* Exact(FromStart), matcher.rs 35-41.
FromStartArm(cs, p, ps, allow) ==
    IF ps = 0
    THEN Invoke(FromStartCall(cs, p, ps, allow))
    ELSE None

\* Exact(ToEnd), matcher.rs 42-48.
ToEndArm(cs, p, ps, allow) ==
    IF cs = <<>> THEN Some(0) ELSE None

\* Exact(AltGroup(alternatives)), matcher.rs 49-71.
AltGroupArm(cs, p, ps, allow) ==
    LET alternatives == get_atom(p[1]).alternatives
    IN  IF alternatives = <<>>
        THEN None
        ELSE LET first == Invoke(AltFirstCall(cs, p, ps, allow))
             IN  IF IsSome(first)
                 THEN first
                 ELSE IF Len(alternatives) >= 2
                      THEN Invoke(AltSecondCall(cs, p, ps, allow))
                      ELSE None

\* Mutant of OneOrMoreArm: without the case of matcher.rs 80-81 for a next
\* atom equal to the quantified one.
OneOrMoreArm_NoSameAtomCase(cs, p, ps, allow) ==
    LET atom == get_atom(p[1])
        maybe_next == MaybeNext(p)
        cnt == count(cs, atom, maybe_next)
    IN  IF cnt = None
        THEN None
        ELSE LET consumed == Unwrap(cnt)
             IN  IF consumed >= 1
                 THEN {c + consumed :
                          c \in Invoke(OneOrMoreRestCall(cs, p, ps, allow,
                                                         consumed))}
                 ELSE IF allow
                      THEN Invoke(OneOrMoreSkipCall(cs, p, ps, allow))
                      ELSE None

\* Mutant of OneOrMoreArm: a run of length zero is accepted (consumed >= 0
\* for consumed >= 1 at matcher.rs 76).
OneOrMoreArm_AcceptsZero(cs, p, ps, allow) ==
    LET atom == get_atom(p[1])
        maybe_next == MaybeNext(p)
        cnt == count(cs, atom, maybe_next)
    IN  IF cnt = None
        THEN None
        ELSE LET consumed == Unwrap(cnt)
             IN  IF consumed >= 0
                 THEN IF /\ maybe_next # {}
                         /\ Unwrap(maybe_next) = atom
                         /\ consumed >= 2
                      THEN Some(consumed)
                      ELSE {c + consumed :
                               c \in Invoke(OneOrMoreRestCall(cs, p, ps, allow,
                                                              consumed))}
                 ELSE IF allow
                      THEN Invoke(OneOrMoreSkipCall(cs, p, ps, allow))
                      ELSE None

\* OneOrMore(atom), matcher.rs 73-95.
OneOrMoreArm(cs, p, ps, allow) ==
    LET atom == get_atom(p[1])
        maybe_next == MaybeNext(p)
        cnt == count(cs, atom, maybe_next)
    IN  IF cnt = None
        THEN None
        ELSE LET consumed == Unwrap(cnt)
             IN  IF consumed >= 1
                 THEN IF /\ maybe_next # {}
                         /\ Unwrap(maybe_next) = atom
                         /\ consumed >= 2
                      THEN Some(consumed)
                      ELSE {c + consumed :
                               c \in Invoke(OneOrMoreRestCall(cs, p, ps, allow,
                                                              consumed))}
                 ELSE IF allow
                      THEN Invoke(OneOrMoreSkipCall(cs, p, ps, allow))
                      ELSE None

\* Mutant of ZeroOrOneArm: a run longer than one fails, skipping or not.
ZeroOrOneArm_NoSkip(cs, p, ps, allow) ==
    LET atom == get_atom(p[1])
        maybe_next == MaybeNext(p)
        cnt == count(cs, atom, maybe_next)
    IN  IF cnt = None
        THEN None
        ELSE LET consumed == Unwrap(cnt)
             IN  IF consumed <= 1
                 THEN {c + consumed :
                          c \in Invoke(ZeroOrOneRestCall(cs, p, ps, allow,
                                                         consumed))}
                 ELSE None

\* ZeroOrOne(atom), matcher.rs 96-107.
ZeroOrOneArm(cs, p, ps, allow) ==
    LET atom == get_atom(p[1])
        maybe_next == MaybeNext(p)
        cnt == count(cs, atom, maybe_next)
    IN  IF cnt = None
        THEN None
        ELSE LET consumed == Unwrap(cnt)
             IN  IF consumed <= 1
                 THEN {c + consumed :
                          c \in Invoke(ZeroOrOneRestCall(cs, p, ps, allow,
                                                         consumed))}
                 ELSE IF allow
                      THEN Invoke(ZeroOrOneSkipCall(cs, p, ps, allow))
                      ELSE None

\* A variant of the early returns without the check of an empty input.
ReachesMatch_IgnoresEmptyInput(cs, p) ==
    p # <<>>

\* A variant of the early returns in which the start anchor, like ZeroOrOne,
\* goes on to the match on pattern[0] when the input is empty.
ReachesMatch_StartAnchorProceeds(cs, p) ==
    /\ p # <<>>
    /\ cs = <<>> => (p[1].q = "ZeroOrOne" \/ p[1] = Exact(FromStart))

\* The early returns of matcher.rs 9-21 do not apply: the call reaches the
\* match on pattern[0].
ReachesMatch(cs, p) ==
    /\ p # <<>>
    /\ cs = <<>> => p[1].q = "ZeroOrOne"

match_from(cs, p, ps, allow) ==
    IF p = <<>>
    THEN Some(0)
    ELSE IF ~ReachesMatch(cs, p)
         THEN IF p[1] = Exact(ToEnd) THEN Some(0) ELSE None
         ELSE LET consumed ==
                    CASE p[1].q = "OneOrMore" ->
                           OneOrMoreArm(cs, p, ps, allow)
                      [] p[1].q = "ZeroOrOne" ->
                           ZeroOrOneArm(cs, p, ps, allow)
                      [] p[1].q = "Exact" /\ IsCharAtom(get_atom(p[1])) ->
                           ExactCharArm(cs, p, ps, allow)
                      [] p[1].q = "Exact"
                           /\ get_atom(p[1]).kind = "FromStart" ->
                           FromStartArm(cs, p, ps, allow)
                      [] p[1].q = "Exact"
                           /\ get_atom(p[1]).kind = "ToEnd" ->
                           ToEndArm(cs, p, ps, allow)
                      [] p[1].q = "Exact"
                           /\ get_atom(p[1]).kind = "AltGroup" ->
                           AltGroupArm(cs, p, ps, allow)
              IN  IF ~allow /\ consumed = None THEN None ELSE consumed

-----------------------------------------------------------------------------
(* The index and slice expressions on `chars` that one call evaluates      *)
(* itself, nested calls aside.  chars[n] needs n < len and &chars[n..]     *)
(* needs n <= len; an expression out of bounds ends the call.              *)

\* chars[n]
At(cs, n) == [index |-> n, len |-> Len(cs), range |-> FALSE]

\* &chars[n..]
From(cs, n) == [index |-> n, len |-> Len(cs), range |-> TRUE]

InBounds(a) == IF a.range THEN a.index <= a.len ELSE a.index < a.len

\* count, matcher.rs 142-159: chars[0] behind is_empty(), chars[1] behind
\* len() > 1 and next != current, &chars[1..] in the recursion.
RECURSIVE CountAccesses(_, _, _)
CountAccesses(cs, current, maybe_next) ==
    IF cs = <<>>
    THEN {}
    ELSE {At(cs, 0)} \cup
         IF ~IsSome(match_atom(cs[1], current))
         THEN {}
         ELSE LET looks == Len(cs) > 1 /\ \E next \in maybe_next :
                                              next # current
                  stops == looks /\ \E next \in maybe_next :
                                       IsSome(match_atom(cs[2], next))
              IN  (IF looks THEN {At(cs, 1)} ELSE {}) \cup
                  (IF stops
                   THEN {}
                   ELSE {From(cs, 1)} \cup
                        CountAccesses(Tail(cs), current, maybe_next))

\* match_from, matcher.rs 22-108.
SliceAccesses(cs, p, ps, allow) ==
    IF ~ReachesMatch(cs, p)
    THEN {}
    ELSE CASE p[1].q = "Exact" /\ IsCharAtom(get_atom(p[1])) ->
                IF cs = <<>>
                THEN {At(cs, 0)}
                ELSE {At(cs, 0)} \cup
                     (IF IsSome(match_atom(cs[1], get_atom(p[1]))) \/ allow
                      THEN {From(cs, 1)}
                      ELSE {})
           [] p[1].q = "OneOrMore" ->
                LET consumed ==
                      Unwrap(count(cs, get_atom(p[1]), MaybeNext(p)))
                IN  CountAccesses(cs, get_atom(p[1]), MaybeNext(p)) \cup
                    (IF consumed >= 1
                     THEN IF MaybeNext(p) = {get_atom(p[1])} /\ consumed >= 2
                          THEN {}
                          ELSE {From(cs, consumed)}
                     ELSE IF allow THEN {From(cs, 1)} ELSE {})
           [] p[1].q = "ZeroOrOne" ->
                LET consumed ==
                      Unwrap(count(cs, get_atom(p[1]), MaybeNext(p)))
                IN  CountAccesses(cs, get_atom(p[1]), MaybeNext(p)) \cup
                    (IF consumed <= 1
                     THEN {From(cs, consumed)}
                     ELSE IF allow THEN {From(cs, 1)} ELSE {})
           [] OTHER -> {}

-----------------------------------------------------------------------------
(* The input lines and the structured patterns that are explored.          *)

SeqsUpTo(S, n) == UNION {[1..k -> S] : k \in 0..n}

Inputs == SeqsUpTo(Alphabet, MaxInputLen)

\* Sequences of Exact(Literal) elements: the literals of a text.
Literals(n) == SeqsUpTo({Exact(Literal(c)) : c \in Alphabet}, n)

\* Exact character atoms, optionally between a start and an end anchor.
ExactPatterns ==
    {pre \o p \o post :
        pre \in {<<>>, <<Exact(FromStart)>>},
        p \in SeqsUpTo({Exact(Literal(c)) : c \in Alphabet} \cup {Exact(W)},
                       MaxExact),
        post \in {<<>>, <<Exact(ToEnd)>>}}

\* x c+ y and x c? y for literal texts x and y.
QuantifiedPatterns ==
    {x \o <<qa>> \o y :
        x \in Literals(MaxLit),
        qa \in {OneOrMore(Literal(c)) : c \in Alphabet}
                 \cup {ZeroOrOne(Literal(c)) : c \in Alphabet},
        y \in Literals(MaxLit)}

\* (b1|..|bn) rest for literal branches and a literal rest.
Branches ==
    {<<Exact(Literal("a"))>>, <<Exact(Literal("b"))>>,
     <<Exact(Literal("a")), Exact(Literal("b"))>>}

AltPatterns ==
    {<<Exact(AltGroup(bs))>> \o rest :
        bs \in SeqsUpTo(Branches, MaxBranches) \ {<<>>},
        rest \in Literals(1)}

\* Every sequence of at most MaxGen elements over a set of elements that has
\* each variant of Atom and of Quantifier.
GenElems ==
    {Exact(FromStart), Exact(ToEnd), Exact(Digit), Exact(W), Exact(AnyChar),
     Exact(Literal("a")), Exact(Literal("b")),
     Exact(ClassSeq(<<Literal("a"), Digit>>, TRUE)),
     Exact(ClassSeq(<<Literal("a")>>, FALSE)),
     Exact(AltGroup(<< <<Exact(Literal("a"))>>, <<Exact(Literal("b"))>> >>)),
     OneOrMore(Literal("a")), OneOrMore(W),
     ZeroOrOne(Literal("a")), ZeroOrOne(W)}

GenPatterns == SeqsUpTo(GenElems, MaxGen)

\* Elements the compiler does not produce but the data model allows:
\* quantified anchors, empty and quantified alternation groups, empty
\* character classes.
EdgeElems ==
    {Exact(Literal("a")),
     OneOrMore(FromStart), OneOrMore(ToEnd), ZeroOrOne(ToEnd),
     Exact(AltGroup(<<>>)), ZeroOrOne(AltGroup(<<>>)),
     OneOrMore(AltGroup(<< <<Exact(Literal("a"))>> >>)),
     Exact(ClassSeq(<<>>, TRUE)), OneOrMore(ClassSeq(<<>>, FALSE)),
     ZeroOrOne(ClassSeq(<<>>, FALSE))}

EdgePatterns == SeqsUpTo(EdgeElems, MaxGen)

\* A quantified word character followed by literals it also accepts.
BackoffPatterns ==
    {<<qw>> \o y :
        qw \in {OneOrMore(W), ZeroOrOne(W)},
        y \in Literals(MaxLit) \ {<<>>}}

\* ^(b1|b2)+$ and ^(b1|b2)?$ as the compiler produces them.
AnchoredGroupPatterns ==
    {<<Exact(FromStart), qg, Exact(ToEnd)>> :
        qg \in {OneOrMore(AltGroup(<<b1, b2>>)) : b1, b2 \in Branches}
                 \cup {ZeroOrOne(AltGroup(<<b1, b2>>)) : b1, b2 \in Branches}}

Patterns ==
    ExactPatterns \cup QuantifiedPatterns \cup AltPatterns \cup GenPatterns
        \cup EdgePatterns \cup BackoffPatterns \cup AnchoredGroupPatterns

-----------------------------------------------------------------------------
(* The compiler (src/src/parser.rs): parse, parse_primitives, parse_atom   *)
(* and quantify, one action per arm of their loops.  `input_chars` is the  *)
(* peekable iterator over the pattern text, held as the number of          *)
(* characters already taken from it.                                       *)

MaxTextLen == 3
MaxGroup == 2
MaxClass == 3
MaxSuffix == 2

\* The characters of the pattern texts.
TextChars ==
    {"a", "d", "w", "\\", "[", "]", "^", "$", ".", "(", "|", ")", "+", "?",
     "*"}

\* unimplemented!(..): the compile aborts.
Unimplemented == [kind |-> "unimplemented"]

\* A variant of parse_atom that takes any other escaped character literally.
parse_atom_OtherIsLiteral(c) ==
    CASE c = "d" -> Digit
      [] c = "w" -> W
      [] OTHER -> Literal(c)

\* parse_atom, parser.rs 138-145.
parse_atom(c) ==
    CASE c = "d" -> Digit
      [] c = "w" -> W
      [] c = "\\" -> Literal("\\")
      [] OTHER -> Unimplemented

\* input_chars.peek() once `n` more characters are taken: Some(c) or None.
Peek(n) ==
    IF input_chars + n < Len(text) THEN {text[input_chars + n + 1]} ELSE {}

\* A variant of quantify in which '?' yields OneOrMore as '+' does.
quantify_OptionalIsPlus(peek, atom) ==
    IF peek = {}
    THEN Exact(atom)
    ELSE CASE Unwrap(peek) \in {"+", "?"} -> OneOrMore(atom)
           [] Unwrap(peek) = "*" -> Unimplemented
           [] OTHER -> Exact(atom)

\* quantify, parser.rs 147-160: the quantifier chosen from the peeked
\* character.
quantify(peek, atom) ==
    IF peek = {}
    THEN Exact(atom)
    ELSE CASE Unwrap(peek) = "+" -> OneOrMore(atom)
           [] Unwrap(peek) = "*" -> Unimplemented
           [] Unwrap(peek) = "?" -> ZeroOrOne(atom)
           [] OTHER -> Exact(atom)

\* parser.rs 149: chars.next_if(|&c| matches!(c, '+' | '*' | '?')), the
\* number of characters it takes.
Taken(peek) == IF peek \cap {"+", "*", "?"} # {} THEN 1 ELSE 0

\* The character parse_primitives is handling (curr_char, parser.rs 67): the
\* one taken last.
curr_char == text[input_chars]

\* parser.rs 128: the characters at which parse_primitives returns.
BreakChars == {"|", ")", "("}

\* body.push(quantify(input_chars, atom)) in parse_primitives, for an atom
\* whose text ends `n` characters further on (parser.rs 73, 80, 116, 123).
PushQuantified(atom, n, what) ==
    LET peek == Peek(n)
    IN  /\ input_chars' = input_chars + n + Taken(peek)
        /\ event' = [kind |-> what, at |-> input_chars + n]
        /\ IF quantify(peek, atom) = Unimplemented
           THEN /\ outcome' = "Panic"
                /\ UNCHANGED <<prim, mode>>
           ELSE /\ prim' = Append(prim, quantify(peek, atom))
                /\ mode' = "peek"
                /\ UNCHANGED outcome

\* parser.rs 23 and 59: the text is exhausted, parse returns Ok(body).
ParseEnd ==
    /\ outcome = "running"
    /\ mode = "parse"
    /\ Peek(0) = {}
    /\ outcome' = "Ok"
    /\ UNCHANGED <<matcher_vars, text, input_chars, mode, in_group, body,
                   group, prim, char_class, is_positive, opened, event>>

\* parser.rs 26-28: '(' at the top level opens a group.
ParseGroupOpen ==
    /\ outcome = "running"
    /\ mode = "parse"
    /\ Peek(0) = {"("}
    /\ input_chars' = input_chars + 1
    /\ mode' = "group"
    /\ group' = <<>>
    /\ event' = [kind |-> "GroupOpen", at |-> input_chars + 1]
    /\ UNCHANGED <<matcher_vars, text, in_group, body, prim, char_class,
                   is_positive, opened, outcome>>

\* parser.rs 52-53: any other character starts parse_primitives.
ParsePrimitives ==
    /\ outcome = "running"
    /\ mode = "parse"
    /\ Peek(0) # {}
    /\ Peek(0) # {"("}
    /\ input_chars' = input_chars + 1
    /\ mode' = "primitives"
    /\ in_group' = FALSE
    /\ prim' = <<>>
    /\ UNCHANGED <<matcher_vars, text, body, group, char_class, is_positive,
                   opened, event, outcome>>

\* A variant of the end of the group loop that returns the pattern read so
\* far, the open group included.
GroupEnd_ClosesGroup ==
    /\ outcome = "running"
    /\ mode = "group"
    /\ Peek(0) = {}
    /\ body' = Append(body, Exact(AltGroup(group)))
    /\ outcome' = "Ok"
    /\ UNCHANGED <<matcher_vars, text, input_chars, mode, in_group, group,
                   prim, char_class, is_positive, opened, event>>

\* parser.rs 30 and 45-47: the text ends inside the group.
GroupEnd ==
    /\ outcome = "running"
    /\ mode = "group"
    /\ Peek(0) = {}
    /\ outcome' = "InvalidGroup"
    /\ UNCHANGED <<matcher_vars, text, input_chars, mode, in_group, body,
                   group, prim, char_class, is_positive, opened, event>>

\* parser.rs 32-35 and 49: ')' closes the group, which is quantified and
\* pushed as one element.
GroupClose ==
    /\ outcome = "running"
    /\ mode = "group"
    /\ Peek(0) = {")"}
    /\ input_chars' = input_chars + 1 + Taken(Peek(1))
    /\ event' = [kind |-> "AltGroup", at |-> input_chars + 1]
    /\ IF quantify(Peek(1), AltGroup(group)) = Unimplemented
       THEN /\ outcome' = "Panic"
            /\ UNCHANGED <<body, mode>>
       ELSE /\ body' = Append(body, quantify(Peek(1), AltGroup(group)))
            /\ mode' = "parse"
            /\ UNCHANGED outcome
    /\ UNCHANGED <<matcher_vars, text, in_group, group, prim, char_class,
                   is_positive, opened>>

\* parser.rs 36: '|' between branches.
GroupSeparator ==
    /\ outcome = "running"
    /\ mode = "group"
    /\ Peek(0) = {"|"}
    /\ input_chars' = input_chars + 1
    /\ UNCHANGED <<matcher_vars, text, mode, in_group, body, group, prim,
                   char_class, is_positive, opened, event, outcome>>

\* parser.rs 38-40: any other character starts a branch.
GroupBranch ==
    /\ outcome = "running"
    /\ mode = "group"
    /\ Peek(0) # {}
    /\ Peek(0) \cap {")", "|"} = {}
    /\ input_chars' = input_chars + 1
    /\ mode' = "primitives"
    /\ in_group' = TRUE
    /\ prim' = <<>>
    /\ UNCHANGED <<matcher_vars, text, body, group, char_class, is_positive,
                   opened, event, outcome>>

\* parser.rs 71-74: '.'
AtomAny ==
    /\ outcome = "running"
    /\ mode = "primitives"
    /\ curr_char = "."
    /\ PushQuantified(AnyChar, 0, "Any")
    /\ UNCHANGED <<matcher_vars, text, in_group, body, group, char_class,
                   is_positive, opened>>

\* parser.rs 76-80: '\' and the character after it.
AtomEscape ==
    /\ outcome = "running"
    /\ mode = "primitives"
    /\ curr_char = "\\"
    /\ Peek(0) # {}
    /\ IF parse_atom(Unwrap(Peek(0))) = Unimplemented
       THEN /\ outcome' = "Panic"
            /\ input_chars' = input_chars + 1
            /\ event' = [kind |-> "OtherEscape", at |-> input_chars + 1]
            /\ UNCHANGED <<prim, mode>>
       ELSE PushQuantified(parse_atom(Unwrap(Peek(0))), 1, "Escape")
    /\ UNCHANGED <<matcher_vars, text, in_group, body, group, char_class,
                   is_positive, opened>>

\* parser.rs 81-83: '\' with nothing after it.
AtomEscapeAtEnd ==
    /\ outcome = "running"
    /\ mode = "primitives"
    /\ curr_char = "\\"
    /\ Peek(0) = {}
    /\ outcome' = "NoClassFound"
    /\ event' = [kind |-> "EscapeAtEnd", at |-> input_chars]
    /\ UNCHANGED <<matcher_vars, text, input_chars, mode, in_group, body,
                   group, prim, char_class, is_positive, opened>>

\* parser.rs 85-89: '[' opens a character class.
AtomClassOpen ==
    /\ outcome = "running"
    /\ mode = "primitives"
    /\ curr_char = "["
    /\ mode' = "class"
    /\ char_class' = <<>>
    /\ is_positive' = TRUE
    /\ opened' = input_chars
    /\ event' = [kind |-> "ClassOpen", at |-> input_chars]
    /\ UNCHANGED <<matcher_vars, text, input_chars, in_group, body, group,
                   prim, outcome>>

\* parser.rs 118-119: '^' and '$' are pushed without a quantifier.
AtomAnchor ==
    /\ outcome = "running"
    /\ mode = "primitives"
    /\ curr_char \in {"^", "$"}
    /\ prim' = Append(prim, IF curr_char = "^"
                            THEN Exact(FromStart)
                            ELSE Exact(ToEnd))
    /\ mode' = "peek"
    /\ event' = [kind |-> "Anchor", at |-> input_chars]
    /\ UNCHANGED <<matcher_vars, text, input_chars, in_group, body, group,
                   char_class, is_positive, opened, outcome>>

\* parser.rs 121-124: any other character is a literal.
AtomLiteral ==
    /\ outcome = "running"
    /\ mode = "primitives"
    /\ curr_char \notin {".", "\\", "[", "^", "$"}
    /\ PushQuantified(Literal(curr_char), 0, "Literal")
    /\ UNCHANGED <<matcher_vars, text, in_group, body, group, char_class,
                   is_positive, opened>>

\* A variant of the end of the class loop that closes the class.
ClassEnd_ClosesClass ==
    /\ outcome = "running"
    /\ mode = "class"
    /\ Peek(0) = {}
    /\ prim' = Append(prim, Exact(ClassSeq(char_class, is_positive)))
    /\ mode' = "peek"
    /\ UNCHANGED <<matcher_vars, text, input_chars, in_group, body, group,
                   char_class, is_positive, opened, event, outcome>>

\* parser.rs 90 and 112-114: the text ends inside the class.
ClassEnd ==
    /\ outcome = "running"
    /\ mode = "class"
    /\ Peek(0) = {}
    /\ outcome' = "InvalidCharClass"
    /\ UNCHANGED <<matcher_vars, text, input_chars, mode, in_group, body,
                   group, prim, char_class, is_positive, opened, event>>

\* parser.rs 92-95 and 116: ']' closes the class, which is quantified.
ClassClose ==
    /\ outcome = "running"
    /\ mode = "class"
    /\ Peek(0) = {"]"}
    /\ PushQuantified(ClassSeq(char_class, is_positive), 1, "Class")
    /\ opened' = 0
    /\ UNCHANGED <<matcher_vars, text, in_group, body, group, char_class,
                   is_positive>>

\* parser.rs 96-98: '^' anywhere in the class.
ClassNegate ==
    /\ outcome = "running"
    /\ mode = "class"
    /\ Peek(0) = {"^"}
    /\ is_positive' = FALSE
    /\ input_chars' = input_chars + 1
    /\ event' = [kind |-> "ClassCaret", at |-> input_chars + 1]
    /\ UNCHANGED <<matcher_vars, text, mode, in_group, body, group, prim,
                   char_class, opened, outcome>>

\* parser.rs 99-103 and 107: '\' in the class and the character after it.
ClassEscape ==
    /\ outcome = "running"
    /\ mode = "class"
    /\ Peek(0) = {"\\"}
    /\ Peek(1) # {}
    /\ input_chars' = input_chars + 2
    /\ IF parse_atom(Unwrap(Peek(1))) = Unimplemented
       THEN /\ outcome' = "Panic"
            /\ UNCHANGED char_class
       ELSE /\ char_class' = Append(char_class, parse_atom(Unwrap(Peek(1))))
            /\ UNCHANGED outcome
    /\ event' = [kind |-> "ClassEscape", at |-> input_chars + 2]
    /\ UNCHANGED <<matcher_vars, text, mode, in_group, body, group, prim,
                   is_positive, opened>>

\* A variant in which '\' as the last character of the text, in a class,
\* returns NoClassFound as it does outside a class.
ClassEscapeAtEnd_NoClassFound ==
    /\ outcome = "running"
    /\ mode = "class"
    /\ Peek(0) = {"\\"}
    /\ Peek(1) = {}
    /\ input_chars' = input_chars + 1
    /\ outcome' = "NoClassFound"
    /\ event' = [kind |-> "EscapeAtEnd", at |-> input_chars + 1]
    /\ UNCHANGED <<matcher_vars, text, mode, in_group, body, group, prim,
                   char_class, is_positive, opened>>

\* parser.rs 104-107: '\' as the last character of the text, in a class.
ClassEscapeAtEnd ==
    /\ outcome = "running"
    /\ mode = "class"
    /\ Peek(0) = {"\\"}
    /\ Peek(1) = {}
    /\ input_chars' = input_chars + 1
    /\ char_class' = Append(char_class, parse_atom("\\"))
    /\ event' = [kind |-> "EscapeAtEnd", at |-> input_chars + 1]
    /\ UNCHANGED <<matcher_vars, text, mode, in_group, body, group, prim,
                   is_positive, opened, outcome>>

\* parser.rs 108: any other character is a member of the class.
ClassLiteral ==
    /\ outcome = "running"
    /\ mode = "class"
    /\ Peek(0) # {}
    /\ Peek(0) \cap {"]", "^", "\\"} = {}
    /\ input_chars' = input_chars + 1
    /\ char_class' = Append(char_class, Literal(Unwrap(Peek(0))))
    /\ event' = [kind |-> "ClassMember", at |-> input_chars + 1]
    /\ UNCHANGED <<matcher_vars, text, mode, in_group, body, group, prim,
                   is_positive, opened, outcome>>

\* parser.rs 129-131: the next character goes on in parse_primitives.
PrimitivesContinue ==
    /\ outcome = "running"
    /\ mode = "peek"
    /\ Peek(0) # {}
    /\ Peek(0) \cap BreakChars = {}
    /\ input_chars' = input_chars + 1
    /\ mode' = "primitives"
    /\ UNCHANGED <<matcher_vars, text, in_group, body, group, prim,
                   char_class, is_positive, opened, event, outcome>>

\* A variant of the return of parse_primitives that appends a branch to the
\* last branch of the group instead of pushing it.
PrimitivesReturn_MergesBranches ==
    /\ outcome = "running"
    /\ mode = "peek"
    /\ Peek(0) = {} \/ Peek(0) \cap BreakChars # {}
    /\ IF in_group
       THEN /\ group' = IF group = <<>>
                        THEN <<prim>>
                        ELSE [group EXCEPT ![Len(group)] = @ \o prim]
            /\ mode' = "group"
            /\ UNCHANGED body
       ELSE /\ body' = body \o prim
            /\ mode' = "parse"
            /\ UNCHANGED group
    /\ UNCHANGED <<matcher_vars, text, input_chars, in_group, prim,
                   char_class, is_positive, opened, event, outcome>>

\* parser.rs 128 and 135: parse_primitives returns Ok(body) at '|', ')', '('
\* or the end of the text; the group loop pushes it as a branch (40-41), the
\* top level appends it (53-54).
PrimitivesReturn ==
    /\ outcome = "running"
    /\ mode = "peek"
    /\ Peek(0) = {} \/ Peek(0) \cap BreakChars # {}
    /\ IF in_group
       THEN /\ group' = Append(group, prim)
            /\ mode' = "group"
            /\ UNCHANGED body
       ELSE /\ body' = body \o prim
            /\ mode' = "parse"
            /\ UNCHANGED group
    /\ UNCHANGED <<matcher_vars, text, input_chars, in_group, prim,
                   char_class, is_positive, opened, event, outcome>>

\* The pattern texts.  Every text up to MaxTextLen characters, and longer
\* ones of three shapes: groups of branches, character classes, and one
\* construct followed by further characters.

\* Branch texts, each with the pattern it compiles to on its own.
CompiledBranches ==
    {[text |-> <<"a">>, body |-> <<Exact(Literal("a"))>>],
     [text |-> <<"a", "d">>,
      body |-> <<Exact(Literal("a")), Exact(Literal("d"))>>],
     [text |-> <<"\\", "d">>, body |-> <<Exact(Digit)>>],
     [text |-> <<"a", "?">>, body |-> <<ZeroOrOne(Literal("a"))>>],
     [text |-> <<"[", "|", "]">>,
      body |-> <<Exact(ClassSeq(<<Literal("|")>>, TRUE))>>],
     [text |-> <<"^", "a">>,
      body |-> <<Exact(FromStart), Exact(Literal("a"))>>]}

BranchTexts == {b.text : b \in CompiledBranches}

BodyOf(branch) == (CHOOSE b \in CompiledBranches : b.text = branch).body

RECURSIVE Join(_)
Join(bs) ==
    IF Len(bs) = 1 THEN bs[1] ELSE bs[1] \o <<"|">> \o Join(Tail(bs))

BranchLists == SeqsUpTo(BranchTexts, MaxGroup) \ {<<>>}

GroupTexts ==
    {pre \o <<"(">> \o Join(bs) \o post :
        pre \in {<<>>, <<"a">>},
        bs \in BranchLists,
        post \in {<<>>, <<")">>, <<")", "+">>, <<")", "a">>}}

ClassChars == {"a", "^", "\\", "d", "["}

ClassTexts ==
    {<<"[">> \o members \o <<"]">> : members \in SeqsUpTo(ClassChars, MaxClass)}

\* One text of each construct that produces an atom, with the atom.
Constructs ==
    {[text |-> <<"a">>, atom |-> Literal("a")],
     [text |-> <<".">>, atom |-> AnyChar],
     [text |-> <<"\\", "d">>, atom |-> Digit],
     [text |-> <<"[", "a", "]">>,
      atom |-> ClassSeq(<<Literal("a")>>, TRUE)],
     [text |-> <<"(", "a", ")">>,
      atom |-> AltGroup(<< <<Exact(Literal("a"))>> >>)]}

ConstructTexts ==
    {k.text \o rest : k \in Constructs, rest \in SeqsUpTo(TextChars, MaxSuffix)}

Texts ==
    SeqsUpTo(TextChars, MaxTextLen) \cup GroupTexts \cup ClassTexts
        \cup ConstructTexts

\* The matcher is not part of the compile.
MatcherAtRest ==
    /\ input = <<>>
    /\ pattern = <<>>
    /\ chars = <<>>
    /\ ptrn = <<>>
    /\ pos = 0
    /\ allow_unmatched = TRUE
    /\ depth = 0
    /\ site = "entry"
    /\ begun = FALSE
    /\ done = TRUE
    /\ result = Some(0)

\* The compiler before it reads the first character (parser.rs 20-21).
CompilerStarts ==
    /\ input_chars = 0
    /\ mode = "parse"
    /\ in_group = FALSE
    /\ body = <<>>
    /\ group = <<>>
    /\ prim = <<>>
    /\ char_class = <<>>
    /\ is_positive = TRUE
    /\ opened = 0
    /\ event = [kind |-> "none", at |-> 0]

\* The compile of the empty text has returned: the matcher's patterns are
\* given in structured form.
CompilerAtRest ==
    /\ text = <<>>
    /\ CompilerStarts
    /\ outcome = "Ok"

InitParse ==
    /\ text \in Texts
    /\ CompilerStarts
    /\ outcome = "running"
    /\ MatcherAtRest

NextParse ==
    \/ ParseEnd
    \/ ParseGroupOpen
    \/ ParsePrimitives
    \/ GroupEnd
    \/ GroupClose
    \/ GroupSeparator
    \/ GroupBranch
    \/ AtomAny
    \/ AtomEscape
    \/ AtomEscapeAtEnd
    \/ AtomClassOpen
    \/ AtomAnchor
    \/ AtomLiteral
    \/ ClassEnd
    \/ ClassClose
    \/ ClassNegate
    \/ ClassEscape
    \/ ClassEscapeAtEnd
    \/ ClassLiteral
    \/ PrimitivesContinue
    \/ PrimitivesReturn

SpecParse == InitParse /\ [][NextParse]_vars

\* The compile has ended: with Ok(body), an error, or an abort.
Compiled == outcome # "running"

\* The compile is inside a group opened at the top level (parser.rs 26-50).
InGroup ==
    \/ mode = "group"
    \/ mode \in {"primitives", "peek", "class"} /\ in_group

-----------------------------------------------------------------------------
(* The state machine: the top-level call and the nested calls it makes.    *)

Init ==
    /\ input \in Inputs
    /\ pattern \in Patterns
    /\ chars = input
    /\ ptrn = pattern
    /\ pos = 0
    /\ allow_unmatched = TRUE
    /\ depth = 0
    /\ site = "entry"
    /\ begun = FALSE
    /\ done = FALSE
    /\ result = None
    /\ CompilerAtRest

\* The nested call `call` is made at the call site `line`; `matched` tells
\* whether the call follows a pattern element that has matched.
Call(call, line, matched) ==
    /\ chars' = call.chars
    /\ ptrn' = call.pattern
    /\ pos' = call.pos
    /\ allow_unmatched' = call.allow_unmatched
    /\ depth' = depth + 1
    /\ site' = line
    /\ begun' = (begun \/ matched)
    /\ UNCHANGED <<input, pattern, done, result, parser_vars>>

\* matcher.rs 26-28: the character matches the Exact atom.
CallExactMatched ==
    /\ ~done
    /\ ReachesMatch(chars, ptrn)
    /\ ptrn[1].q = "Exact"
    /\ IsCharAtom(get_atom(ptrn[1]))
    /\ IsSome(match_atom(chars[1], get_atom(ptrn[1])))
    /\ Call(ExactMatchedCall(chars, ptrn, pos, allow_unmatched), "L27", TRUE)

\* matcher.rs 31-33: no match, skip one input character.
CallExactSkip ==
    /\ ~done
    /\ ReachesMatch(chars, ptrn)
    /\ ptrn[1].q = "Exact"
    /\ IsCharAtom(get_atom(ptrn[1]))
    /\ ~IsSome(match_atom(chars[1], get_atom(ptrn[1])))
    /\ allow_unmatched
    /\ Call(ExactSkipCall(chars, ptrn, pos, allow_unmatched), "L32", FALSE)

\* matcher.rs 36-37: the start anchor at pos 0.
CallFromStart ==
    /\ ~done
    /\ ReachesMatch(chars, ptrn)
    /\ ptrn[1] = Exact(FromStart)
    /\ pos = 0
    /\ Call(FromStartCall(chars, ptrn, pos, allow_unmatched), "L37", TRUE)

\* matcher.rs 54-59: the first alternative followed by the rest.
CallAltFirst ==
    /\ ~done
    /\ ReachesMatch(chars, ptrn)
    /\ ptrn[1].q = "Exact"
    /\ get_atom(ptrn[1]).kind = "AltGroup"
    /\ get_atom(ptrn[1]).alternatives # <<>>
    /\ Call(AltFirstCall(chars, ptrn, pos, allow_unmatched), "L59", FALSE)

\* matcher.rs 63-67: the first alternative failed, the second is tried.
CallAltSecond ==
    /\ ~done
    /\ ReachesMatch(chars, ptrn)
    /\ ptrn[1].q = "Exact"
    /\ get_atom(ptrn[1]).kind = "AltGroup"
    /\ get_atom(ptrn[1]).alternatives # <<>>
    /\ ~IsSome(Invoke(AltFirstCall(chars, ptrn, pos, allow_unmatched)))
    /\ Len(get_atom(ptrn[1]).alternatives) >= 2
    /\ Call(AltSecondCall(chars, ptrn, pos, allow_unmatched), "L67", FALSE)

\* matcher.rs 76-89: the run of OneOrMore is consumed, the rest follows.
CallOneOrMoreRest ==
    /\ ~done
    /\ ReachesMatch(chars, ptrn)
    /\ ptrn[1].q = "OneOrMore"
    /\ LET cnt == count(chars, get_atom(ptrn[1]), MaybeNext(ptrn))
       IN  /\ IsSome(cnt)
           /\ Unwrap(cnt) >= 1
           /\ ~(/\ MaybeNext(ptrn) = {get_atom(ptrn[1])}
                /\ Unwrap(cnt) >= 2)
           /\ Call(OneOrMoreRestCall(chars, ptrn, pos, allow_unmatched,
                                     Unwrap(cnt)), "L83", TRUE)

\* matcher.rs 90-91: OneOrMore found no run, skip one input character.
CallOneOrMoreSkip ==
    /\ ~done
    /\ ReachesMatch(chars, ptrn)
    /\ ptrn[1].q = "OneOrMore"
    /\ count(chars, get_atom(ptrn[1]), MaybeNext(ptrn)) = Some(0)
    /\ allow_unmatched
    /\ Call(OneOrMoreSkipCall(chars, ptrn, pos, allow_unmatched), "L91", FALSE)

\* matcher.rs 99-101: ZeroOrOne consumed at most one, the rest follows.
CallZeroOrOneRest ==
    /\ ~done
    /\ ReachesMatch(chars, ptrn)
    /\ ptrn[1].q = "ZeroOrOne"
    /\ LET cnt == count(chars, get_atom(ptrn[1]), MaybeNext(ptrn))
       IN  /\ IsSome(cnt)
           /\ Unwrap(cnt) <= 1
           /\ Call(ZeroOrOneRestCall(chars, ptrn, pos, allow_unmatched,
                                     Unwrap(cnt)), "L101", TRUE)

\* matcher.rs 102-103: a run longer than one, skip one input character.
CallZeroOrOneSkip ==
    /\ ~done
    /\ ReachesMatch(chars, ptrn)
    /\ ptrn[1].q = "ZeroOrOne"
    /\ LET cnt == count(chars, get_atom(ptrn[1]), MaybeNext(ptrn))
       IN  /\ IsSome(cnt)
           /\ Unwrap(cnt) > 1
    /\ allow_unmatched
    /\ Call(ZeroOrOneSkipCall(chars, ptrn, pos, allow_unmatched), "L103", FALSE)

\* The top-level call returns its value to the caller.
Return ==
    /\ ~done
    /\ depth = 0
    /\ done' = TRUE
    /\ result' = match_from(input, pattern, 0, TRUE)
    /\ UNCHANGED <<input, pattern, chars, ptrn, pos, allow_unmatched, depth,
                   site, begun, parser_vars>>

Next ==
    \/ CallExactMatched
    \/ CallExactSkip
    \/ CallFromStart
    \/ CallAltFirst
    \/ CallAltSecond
    \/ CallOneOrMoreRest
    \/ CallOneOrMoreSkip
    \/ CallZeroOrOneRest
    \/ CallZeroOrOneSkip
    \/ Return

Spec == Init /\ [][Next]_vars

TypeOK ==
    /\ input \in Inputs
    /\ pos \in 0..(MaxInputLen + 1)
    /\ depth \in Nat
    /\ allow_unmatched \in BOOLEAN
    /\ done \in BOOLEAN

-----------------------------------------------------------------------------
(* Vocabulary of the properties.                                           *)

\* The pattern p is made of Exact(Literal) elements only.
IsLiteralOnly(p) ==
    \A i \in 1..Len(p) : p[i].q = "Exact" /\ get_atom(p[i]).kind = "Literal"

\* The characters of a literal-only pattern.
Text(p) == [i \in 1..Len(p) |-> get_atom(p[i]).c]

StartsWith(s, t) == Len(t) <= Len(s) /\ SubSeq(s, 1, Len(t)) = t

EndsWith(s, t) ==
    Len(t) <= Len(s) /\ SubSeq(s, Len(s) - Len(t) + 1, Len(s)) = t

Contains(s, t) == \E k \in 0..Len(s) : StartsWith(SliceFrom(s, k), t)

\* n copies of the character c.
Repeat(c, n) == [i \in 1..n |-> c]

-----------------------------------------------------------------------------
(* C1..C3: literal patterns and anchors.                                   *)

\* C1: a literal-only pattern matches exactly the inputs that contain its
\* text as a contiguous substring, also when the first character of the text
\* occurs in the input before the occurrence of the text.
C1_LiteralIffSubstring ==
    (done /\ IsLiteralOnly(pattern))
        => (IsSome(result) <=> Contains(input, Text(pattern)))

\* C2: a non-empty literal text followed by the end anchor matches exactly
\* the inputs that end with the text, also when the text occurs earlier too.
C2_EndAnchorIffSuffix ==
    (/\ done
     /\ Len(pattern) >= 2
     /\ pattern[Len(pattern)] = Exact(ToEnd)
     /\ IsLiteralOnly(SubSeq(pattern, 1, Len(pattern) - 1)))
        => (IsSome(result)
              <=> EndsWith(input, Text(SubSeq(pattern, 1, Len(pattern) - 1))))

\* The pattern is the start anchor followed by a non-empty literal text.
StartAnchoredLiteral(p) ==
    /\ Len(p) >= 2
    /\ p[1] = Exact(FromStart)
    /\ IsLiteralOnly(Tail(p))

\* C3: the start anchor followed by a non-empty literal text matches exactly
\* the inputs that start with the text, and no call of the match skips an
\* input character.
C3_StartAnchorIffPrefix ==
    StartAnchoredLiteral(pattern)
        => /\ done => (IsSome(result)
                         <=> StartsWith(input, Text(Tail(pattern))))
           /\ site \notin {"L32", "L91", "L103"}
           /\ ~done /\ depth > 0 => ~allow_unmatched

\* C3 witness: the text occurs in the input, but not at its start, and the
\* anchored pattern does not match.
C3_Witness ==
    /\ done
    /\ StartAnchoredLiteral(pattern)
    /\ Contains(input, Text(Tail(pattern)))
    /\ ~StartsWith(input, Text(Tail(pattern)))
    /\ result = None

-----------------------------------------------------------------------------
(* C4..C5: alternation groups.                                             *)

\* The first element of p is an Exact alternation group.
StartsWithAltGroup(p) ==
    /\ p # <<>>
    /\ p[1].q = "Exact"
    /\ get_atom(p[1]).kind = "AltGroup"

\* The result of matching (b_i ++ rest) without skipping for the smallest i
\* for which that match succeeds, None if there is no such i.
FirstBranchResult(cs, bs, rest, ps) ==
    LET ok == {i \in 1..Len(bs) :
                  IsSome(match_from(cs, bs[i] \o rest, ps, FALSE))}
    IN  IF ok = {}
        THEN None
        ELSE match_from(cs,
                        bs[CHOOSE i \in ok : \A j \in ok : i <= j] \o rest,
                        ps, FALSE)

\* C4: a call whose pattern starts with an alternation group of n >= 1
\* branches, on a non-empty input, returns the result of the first branch
\* whose combination with the rest matches, and None only if no branch does.
C4_FirstSucceedingBranch ==
    (/\ StartsWithAltGroup(ptrn)
     /\ Len(get_atom(ptrn[1]).alternatives) >= 1
     /\ chars # <<>>)
        => match_from(chars, ptrn, pos, allow_unmatched)
             = FirstBranchResult(chars, get_atom(ptrn[1]).alternatives,
                                 Tail(ptrn), pos)

\* C5: a pattern that starts with an alternation group is searched for at
\* every offset k of the input: if some branch followed by the rest matches
\* contiguously at some offset, the top-level call succeeds.  Stated for the
\* groups of one or two branches, all of which matcher.rs 55-67 tries.
C5_AltGroupSearchedAtEveryOffset ==
    (/\ done
     /\ StartsWithAltGroup(pattern)
     /\ Len(get_atom(pattern[1]).alternatives) <= 2
     /\ \E k \in 0..Len(input) :
          \E i \in 1..Len(get_atom(pattern[1]).alternatives) :
             IsSome(match_from(SliceFrom(input, k),
                               get_atom(pattern[1]).alternatives[i]
                                  \o Tail(pattern),
                               k, FALSE)))
        => IsSome(result)

-----------------------------------------------------------------------------
(* C6..C7: trailing input and optional atoms.                              *)

\* The pattern p has an end anchor, alternation branches included.
RECURSIVE HasEndAnchor(_)
HasEndAnchor(p) ==
    \E i \in 1..Len(p) :
        \/ get_atom(p[i]).kind = "ToEnd"
        \/ /\ get_atom(p[i]).kind = "AltGroup"
           /\ \E j \in 1..Len(get_atom(p[i]).alternatives) :
                 HasEndAnchor(get_atom(p[i]).alternatives[j])

\* C6: for a pattern without end anchor, input appended to a matching input
\* leaves it matching.
C6_TrailingInputKeepsMatch ==
    (done /\ ~HasEndAnchor(pattern) /\ IsSome(result))
        => \A t \in SeqsUpTo(Alphabet, MaxExt) :
              IsSome(match_from(input \o t, pattern, 0, TRUE))

\* The pattern p is x q(c) y for literal texts x and y, with the quantified
\* literal at index i.
IsQuantifiedLiteralAt(p, i, q) ==
    /\ i \in 1..Len(p)
    /\ p[i].q = q
    /\ get_atom(p[i]).kind = "Literal"
    /\ IsLiteralOnly(SubSeq(p, 1, i - 1))
    /\ IsLiteralOnly(SubSeq(p, i + 1, Len(p)))

TextBefore(p, i) == Text(SubSeq(p, 1, i - 1))
TextAfter(p, i) == Text(SubSeq(p, i + 1, Len(p)))

\* C7: the pattern x c? y matches the input x y and the input x c y, for all
\* literal texts x and y (y may begin with c) and every character c.
C7_OptionalMatchesBoth ==
    done =>
      \A i \in 1..Len(pattern) :
        (/\ IsQuantifiedLiteralAt(pattern, i, "ZeroOrOne")
         /\ \/ input = TextBefore(pattern, i) \o TextAfter(pattern, i)
            \/ input = TextBefore(pattern, i) \o <<get_atom(pattern[i]).c>>
                          \o TextAfter(pattern, i))
            => IsSome(result)

-----------------------------------------------------------------------------
(* C8..C9: OneOrMore.                                                      *)

\* C8: the pattern a+a on n copies of a returns Some(n) for n >= 2 and None
\* for n = 1 and n = 0.
C8_PlusThenSameAtom ==
    \A c \in Alphabet, n \in 0..MaxInputLen :
        (/\ done
         /\ pattern = <<OneOrMore(Literal(c)), Exact(Literal(c))>>
         /\ input = Repeat(c, n))
            => result = IF n >= 2 THEN Some(n) ELSE None

\* C8 witness: a+a has consumed the three characters of aaa.
C8_Witness ==
    /\ done
    /\ pattern = <<OneOrMore(Literal("a")), Exact(Literal("a"))>>
    /\ input = Repeat("a", 3)
    /\ result = Some(3)

\* The pattern is x c+ y with c+ at index i, c is not the first character of
\* y, and the input is x c^n y.
IsPlusCase(i, n) ==
    /\ IsQuantifiedLiteralAt(pattern, i, "OneOrMore")
    /\ i < Len(pattern) => get_atom(pattern[i + 1]) # get_atom(pattern[i])
    /\ n >= 0
    /\ input = TextBefore(pattern, i) \o Repeat(get_atom(pattern[i]).c, n)
                  \o TextAfter(pattern, i)

\* C9: the pattern x c+ y, c not the first character of y, matches the input
\* x c^n y if and only if n >= 1.
C9_PlusNeedsOne ==
    done =>
      \A i \in 1..Len(pattern) :
        LET n == Len(input) - (Len(pattern) - 1)
        IN  IsPlusCase(i, n) => (IsSome(result) <=> n >= 1)

\* C9 witness: x c+ y has matched x c c y for non-empty x and y.
C9_Witness ==
    /\ done
    /\ \E i \in 2..(Len(pattern) - 1) : IsPlusCase(i, 2)
    /\ IsSome(result)

-----------------------------------------------------------------------------
(* C10: the skip flag.                                                     *)

\* The first element of p does not accept what cs begins with (cs is not
\* empty), so the call match_from(cs, p, ps, _) matches nothing at this offset.
FailsAtFirst(cs, p, ps) ==
    /\ p # <<>>
    /\ cs # <<>>
    /\ \/ /\ p[1].q = "Exact"
          /\ IsCharAtom(get_atom(p[1]))
          /\ ~IsSome(match_atom(cs[1], get_atom(p[1])))
       \/ p[1] = Exact(ToEnd)
       \/ p[1] = Exact(FromStart) /\ ps # 0
       \/ /\ p[1].q = "OneOrMore"
          /\ count(cs, get_atom(p[1]), MaybeNext(p)) = Some(0)
       \/ /\ p[1].q = "ZeroOrOne"
          /\ Unwrap(count(cs, get_atom(p[1]), MaybeNext(p))) > 1

\* k word characters followed by the end anchor.
WordCharsToEnd(k) == [i \in 1..k |-> Exact(W)] \o <<Exact(ToEnd)>>

\* C10: in every call reachable from match_from(input, pattern, 0, true) the
\* skip flag is true only with the entire original pattern; once an element
\* has matched every later call has skip = false, and a call without skip
\* whose first element fails returns None; so k word characters followed by
\* the end anchor do not match a longer input.
C10_SkipOnlyBeforeFirstMatch ==
    /\ allow_unmatched => ptrn = pattern
    /\ begun => ~allow_unmatched
    /\ (~allow_unmatched /\ FailsAtFirst(chars, ptrn, pos))
          => match_from(chars, ptrn, pos, allow_unmatched) = None
    /\ \A k \in 1..MaxExact :
          (done /\ pattern = WordCharsToEnd(k) /\ Len(input) > k)
              => result = None

\* C10 witness: three word characters have matched, the end anchor fails on
\* the input that is left, and the call has skip = false.
C10_Witness ==
    /\ pattern = WordCharsToEnd(3)
    /\ begun
    /\ site = "L27"
    /\ ~allow_unmatched
    /\ ptrn = <<Exact(ToEnd)>>
    /\ FailsAtFirst(chars, ptrn, pos)

-----------------------------------------------------------------------------
(* C11: a call of match_from on an empty input returns Some only if the    *)
(* pattern is empty, or its first element is a ZeroOrOne, or its first     *)
(* element is the end anchor; for every other first element, the start     *)
(* anchor included, it returns None, whatever the skip flag is.            *)
C11_EmptyInputMatchesOnly ==
    chars = <<>> =>
        \A allow \in BOOLEAN :
            IsSome(match_from(chars, ptrn, pos, allow)) =>
                \/ ptrn = <<>>
                \/ ptrn[1].q = "ZeroOrOne"
                \/ ptrn[1] = Exact(ToEnd)

\* The start anchor alone against the empty line: the call returns None.
C11_Witness ==
    /\ done
    /\ input = <<>>
    /\ pattern = <<Exact(FromStart)>>
    /\ result = None

-----------------------------------------------------------------------------
\* None and Some(n) for n at most `most`.
Options(most) == {None} \cup {Some(n) : n \in 0..most}

(* C12: the recursive matcher never raises.  Every index and slice         *)
(* expression a reachable call evaluates on its input slice (chars[0],     *)
(* chars[1], chars[1..], chars[consumed..]) is within bounds, and for a    *)
(* zero and a non-zero pos (the code only tests pos == 0) and either skip  *)
(* flag a top-level call returns None or Some(n) with n at most the length *)
(* of the input; this for every structured pattern, quantified anchors,    *)
(* quantified or empty alternation groups and empty character classes      *)
(* included.                                                               *)
C12_NeverRaises ==
    /\ \A allow \in BOOLEAN :
           \A a \in SliceAccesses(chars, ptrn, pos, allow) : InBounds(a)
    /\ done => result \in Options(Len(input))
    /\ (depth = 0 /\ ~done) =>
           \A call \in {Args(input, pattern, 1, TRUE),
                         Args(input, pattern, 0, FALSE),
                         Args(input, pattern, 1, FALSE)} :
               Invoke(call) \in Options(Len(input))

\* A nested call on the empty slice whose pattern begins with an optional
\* alternation group: the call reaches the match and slices chars[0..].
C12_Witness ==
    /\ depth > 0
    /\ chars = <<>>
    /\ ptrn # <<>>
    /\ ptrn[1] = ZeroOrOne(AltGroup(<<>>))
    /\ From(chars, 0) \in SliceAccesses(chars, ptrn, pos, allow_unmatched)

-----------------------------------------------------------------------------
(* Vocabulary of the compiler claims.                                      *)

\* The step just taken read '\' as the introducer of an escape and the
\* character after it (parser.rs 76-80 and 99-103).
EscapeRead == event.kind \in {"Escape", "OtherEscape", "ClassEscape"}

\* The characters parse_atom knows after '\'.
EscapeLetters == {"d", "w", "\\"}

-----------------------------------------------------------------------------
(* C13: whenever the compiler has read a '[' that opens a character class  *)
(* and the compile ends without the closing ']' having been read, other    *)
(* than by the abort at an escape of another character, the compile        *)
(* returns InvalidCharClass and no pattern, whatever preceded the '['.     *)
C13_UnterminatedClass ==
    (Compiled /\ opened > 0 /\ ~(EscapeRead /\ outcome = "Panic")) =>
        /\ input_chars = Len(text)
        /\ outcome = "InvalidCharClass"

\* A class opened in a branch of a group, after an element of the branch,
\* and never closed.
C13_Witness ==
    /\ Compiled
    /\ opened > 1
    /\ in_group
    /\ prim # <<>>
    /\ outcome = "InvalidCharClass"

-----------------------------------------------------------------------------
(* C14: whenever the compiler has read a '(' at the top level and the text *)
(* ends without the closing ')', and no error or abort arises inside a     *)
(* branch, the compile returns InvalidGroup, even if some branches were    *)
(* already parsed.                                                         *)
C14_UnterminatedGroup ==
    (/\ Compiled
     /\ InGroup
     /\ outcome \notin {"InvalidCharClass", "NoClassFound", "Panic"}) =>
        /\ input_chars = Len(text)
        /\ outcome = "InvalidGroup"

\* Two branches were parsed before the text ended.
C14_Witness ==
    /\ Compiled
    /\ Len(group) >= 2
    /\ \E k \in 1..Len(text) : text[k] = "|"
    /\ outcome = "InvalidGroup"

-----------------------------------------------------------------------------
(* C15, as claimed: if the pattern text ends with a backslash that         *)
(* introduces an escape and nothing follows it, the compile returns        *)
(* NoClassFound, at the top level, in a group branch and in a character    *)
(* class alike.                                                            *)
C15_TrailingBackslash ==
    (Compiled /\ event.kind = "EscapeAtEnd") => outcome = "NoClassFound"

(* C15, amended: at the top level and in a group branch the compile        *)
(* returns NoClassFound; in a character class the backslash becomes the    *)
(* member Literal('\') and the compile returns InvalidCharClass.           *)
C15_TrailingBackslashAmended ==
    (Compiled /\ event.kind = "EscapeAtEnd") =>
        IF opened > 0
        THEN /\ outcome = "InvalidCharClass"
             /\ char_class # <<>>
             /\ char_class[Len(char_class)] = Literal("\\")
        ELSE outcome = "NoClassFound"

\* The trailing backslash read in a character class.
C15_Witness ==
    /\ Compiled
    /\ event.kind = "EscapeAtEnd"
    /\ opened > 0
    /\ outcome = "InvalidCharClass"

-----------------------------------------------------------------------------
(* C16: when a backslash read as the introducer of an escape, at the top   *)
(* level, in a group branch or in a character class, is followed by a      *)
(* character other than d, w or backslash, the compile aborts at that      *)
(* escape and returns no pattern.                                          *)
C16_OtherEscapeAborts ==
    (EscapeRead /\ text[event.at] \notin EscapeLetters) =>
        /\ outcome = "Panic"
        /\ input_chars = event.at

\* The abort at an escape in a character class, after a member was read.
C16_Witness ==
    /\ event.kind = "ClassEscape"
    /\ text[event.at] \notin EscapeLetters
    /\ char_class # <<>>
    /\ outcome = "Panic"

-----------------------------------------------------------------------------
(* C17: inside a character class only a '^' immediately after the opening  *)
(* '[' makes the class negative and is not a member; a '^' at any later    *)
(* position is added as the member Literal('^') and leaves the polarity    *)
(* as the first character set it.                                          *)
C17_CaretInClass ==
    event.kind = "ClassCaret" =>
        IF event.at = opened + 1
        THEN ~is_positive /\ char_class = <<>>
        ELSE /\ char_class # <<>>
             /\ char_class[Len(char_class)] = Literal("^")
             /\ is_positive = (text[opened + 1] # "^")

-----------------------------------------------------------------------------
(* C18: the vocabulary of a quantify call.                                 *)

\* The step just taken built an atom and called quantify on it.
QuantifyCalled ==
    \/ event.kind \in {"Literal", "Any", "Escape", "Class"}
       /\ (mode = "peek" \/ outcome = "Panic")
    \/ event.kind = "AltGroup"
       /\ (mode = "parse" \/ outcome = "Panic")

\* The character right after the text of the atom: Some(c) or None.
Suffix == IF event.at < Len(text) THEN {text[event.at + 1]} ELSE {}

\* The sequence the element of the atom is pushed on.
PushedOn == IF event.kind = "AltGroup" THEN body ELSE prim

\* The element pushed last is `q` applied to an atom, and `n` characters
\* after the atom were taken.
Emitted(q, n) ==
    /\ outcome # "Panic"
    /\ PushedOn # <<>>
    /\ PushedOn[Len(PushedOn)].q = q
    /\ input_chars = event.at + n

\* A text made of one construct and `rest` compiles to `elements`.
CompilesTo(rest, elements) ==
    \A k \in Constructs :
        (Compiled /\ text = k.text \o rest) =>
            /\ outcome = "Ok"
            /\ body = [j \in 1..Len(elements) |->
                          [q |-> elements[j], atom |-> k.atom]]

(* C18, as claimed: an atom-producing construct immediately followed by    *)
(* '+' or '?' yields exactly one element, OneOrMore(atom) for '+' and      *)
(* ZeroOrOne(atom) for '?', and the suffix is consumed; with any other     *)
(* following character, or at the end of the text, the element is          *)
(* Exact(atom).                                                            *)
C18_QuantifierSuffix ==
    /\ QuantifyCalled =>
          CASE Suffix = {"+"} -> Emitted("OneOrMore", 1)
            [] Suffix = {"?"} -> Emitted("ZeroOrOne", 1)
            [] OTHER -> Emitted("Exact", 0)
    /\ CompilesTo(<<"+">>, <<"OneOrMore">>)
    /\ CompilesTo(<<"?">>, <<"ZeroOrOne">>)
    /\ CompilesTo(<<>>, <<"Exact">>)

(* C18, amended: as claimed for '+', '?' and the end of the text; with     *)
(* any other following character except '*' the element is Exact(atom);    *)
(* with '*' the compile aborts and no element is emitted.                  *)
C18_QuantifierSuffixAmended ==
    /\ QuantifyCalled =>
          CASE Suffix = {"+"} -> Emitted("OneOrMore", 1)
            [] Suffix = {"?"} -> Emitted("ZeroOrOne", 1)
            [] Suffix = {"*"} -> outcome = "Panic"
            [] OTHER -> Emitted("Exact", 0)
    /\ CompilesTo(<<"+">>, <<"OneOrMore">>)
    /\ CompilesTo(<<"?">>, <<"ZeroOrOne">>)
    /\ CompilesTo(<<>>, <<"Exact">>)

\* A character class followed by '?' has compiled to one ZeroOrOne element.
C18_Witness ==
    /\ Compiled
    /\ text = <<"[", "a", "]", "?">>
    /\ body = <<ZeroOrOne(ClassSeq(<<Literal("a")>>, TRUE))>>

-----------------------------------------------------------------------------
(* C19: a group (b1|b2|...|bk) of k >= 1 non-empty branches of primitives  *)
(* compiles to a single alternation element whose branch list has exactly  *)
(* k entries, in textual order, each equal to the compilation of the       *)
(* branch text on its own; the group is one element of the enclosing       *)
(* pattern, after a preceding element and before a following one.          *)
C19_GroupBranches ==
    /\ \A b \in CompiledBranches :
           (Compiled /\ text = b.text) => (outcome = "Ok" /\ body = b.body)
    /\ (Compiled /\ Len(text) >= 3 /\ "(" \in {text[1], text[2]}) =>
           \A bs \in BranchLists :
               LET grp == AltGroup([j \in 1..Len(bs) |-> BodyOf(bs[j])])
                   txt == <<"(">> \o Join(bs) \o <<")">>
               IN  /\ text = txt => body = <<Exact(grp)>>
                   /\ text = txt \o <<"+">> => body = <<OneOrMore(grp)>>
                   /\ text = txt \o <<"a">> =>
                          body = <<Exact(grp), Exact(Literal("a"))>>
                   /\ text = <<"a">> \o txt =>
                          body = <<Exact(Literal("a")), Exact(grp)>>

\* A group of two branches of different lengths has compiled.
C19_Witness ==
    /\ Compiled
    /\ text = <<"(", "a", "d", "|", "\\", "d", ")">>
    /\ body = <<Exact(AltGroup(<< <<Exact(Literal("a")), Exact(Literal("d"))>>,
                                  <<Exact(Digit)>> >>))>>

-----------------------------------------------------------------------------
(* C20: for a pattern [OneOrMore(a), Exact(a)] ++ rest with identical      *)
(* atoms, on a run of at least two characters matching a, the identical    *)
(* following element is treated as satisfied and the call succeeds only if *)
(* rest also matches contiguously from the position right after the run.   *)
C20_SameAtomThenRest ==
    (/\ done
     /\ Len(pattern) >= 2
     /\ pattern[1].q = "OneOrMore"
     /\ pattern[2] = Exact(get_atom(pattern[1]))
     /\ Unwrap(count(input, get_atom(pattern[1]), MaybeNext(pattern))) >= 2) =>
        LET run == Unwrap(count(input, get_atom(pattern[1]),
                                MaybeNext(pattern)))
            rest == SubSeq(pattern, 3, Len(pattern))
        IN  IsSome(result) =>
                IsSome(match_from(SliceFrom(input, run), rest, run, FALSE))

-----------------------------------------------------------------------------
(* C21: a quantifier backs off as far as necessary.  For a pattern         *)
(* [OneOrMore(A)] ++ rest or [ZeroOrOne(A)] ++ rest matched without        *)
(* skipping where a run of r characters match A, if rest matches           *)
(* contiguously after some admissible count k (1 <= k <= r for OneOrMore,  *)
(* k in {0, 1} and k <= r for ZeroOrOne), then match_from succeeds.  The   *)
(* formula takes the case the claim ends on: the first atom of rest is     *)
(* another atom than A and accepts characters that A accepts.              *)

\* The length of the longest prefix of cs whose characters all match atom.
RECURSIVE RunLength(_, _)
RunLength(cs, atom) ==
    IF cs = <<>> \/ ~IsSome(match_atom(cs[1], atom))
    THEN 0
    ELSE 1 + RunLength(Tail(cs), atom)

\* The counts the quantifier q may consume of a run of r characters.
AdmissibleCounts(q, r) ==
    IF q = "OneOrMore" THEN 1..r ELSE {k \in {0, 1} : k <= r}

C21_QuantifierBacksOff ==
    (/\ done
     /\ Len(pattern) >= 2
     /\ pattern[1].q \in {"OneOrMore", "ZeroOrOne"}
     /\ IsCharAtom(get_atom(pattern[1]))
     /\ get_atom(pattern[2]) # get_atom(pattern[1])) =>
        LET r == RunLength(input, get_atom(pattern[1]))
        IN  (\E k \in AdmissibleCounts(pattern[1].q, r) :
                 IsSome(match_from(SliceFrom(input, k), Tail(pattern), k,
                                   FALSE))) =>
                IsSome(match_from(input, pattern, 0, FALSE))

-----------------------------------------------------------------------------
(* C22: a quantified alternation group consumes an occurrence of one of    *)
(* its branches.  For literal branches b1 and b2 the patterns              *)
(* [^, OneOrMore(AltGroup(b1, b2)), $] and                                 *)
(* [^, ZeroOrOne(AltGroup(b1, b2)), $] both match the input b1.            *)
C22_QuantifiedGroupMatchesBranch ==
    (/\ done
     /\ pattern \in AnchoredGroupPatterns
     /\ input = Text(get_atom(pattern[2]).alternatives[1])) =>
        IsSome(result)

-----------------------------------------------------------------------------
(* C23: success is reported only after every element of the pattern has    *)
(* been walked.  For a pattern p ++ [$] ++ q in which q begins with an     *)
(* Exact element of a character-consuming atom, match_from returns None    *)
(* for every input.                                                        *)
C23_NothingAfterEndAnchor ==
    (/\ done
     /\ \E i \in 1..(Len(pattern) - 1) :
           /\ pattern[i] = Exact(ToEnd)
           /\ pattern[i + 1].q = "Exact"
           /\ IsCharAtom(get_atom(pattern[i + 1]))) =>
        result = None

-----------------------------------------------------------------------------
(* C27: every call terminates.  Each nested call strictly decreases the    *)
(* number of quantifier elements of the pattern, counted through all       *)
(* nested alternation branches, plus the length of the slice; so the       *)
(* recursion depth is at most that sum plus one (the top-level call        *)
(* being the first level).                                                 *)

\* The number of quantifier elements of p, branches of groups included.
RECURSIVE Elements(_)
\* The number of quantifier elements in the branches bs of a group.
RECURSIVE BranchElements(_)
Elements(p) ==
    IF p = <<>>
    THEN 0
    ELSE (IF get_atom(p[1]).kind = "AltGroup"
          THEN 1 + BranchElements(get_atom(p[1]).alternatives)
          ELSE 1) + Elements(Tail(p))
BranchElements(bs) ==
    IF bs = <<>> THEN 0 ELSE Elements(bs[1]) + BranchElements(Tail(bs))

\* The quantity that decreases from a call to the calls it makes.
Measure(cs, p) == Elements(p) + Len(cs)

C27_CallsDecreaseMeasure ==
    [][/\ depth' = depth + 1 => Measure(chars', ptrn') < Measure(chars, ptrn)
       /\ depth' + 1 <= Measure(input, pattern) + 1]_vars

\* A nested call has been made on a pattern with an alternation group.
C27_Witness ==
    /\ depth >= 2
    /\ \E i \in 1..Len(pattern) : get_atom(pattern[i]).kind = "AltGroup"
    /\ Elements(pattern) > Len(pattern)

-----------------------------------------------------------------------------
(* C28: a lone optional element matches every input.  For an atom a, the   *)
(* pattern [ZeroOrOne(a)] matched at top level (skipping allowed) matches  *)
(* every input, the empty one and those beginning with two or more         *)
(* characters that a accepts included.                                     *)
C28_LoneOptionalMatches ==
    (/\ done
     /\ Len(pattern) = 1
     /\ pattern[1].q = "ZeroOrOne") =>
        IsSome(result)

\* A lone optional literal has matched an input that begins with two of it.
C28_Witness ==
    /\ done
    /\ Len(pattern) = 1
    /\ pattern[1].q = "ZeroOrOne"
    /\ Len(input) >= 2
    /\ RunLength(input, get_atom(pattern[1])) >= 2
    /\ IsSome(result)

-----------------------------------------------------------------------------
(* C29: pos is the index of the slice in the input.  In every call         *)
(* reachable from the top-level call, pos + len(chars) = len(input);       *)
(* elements that consume no character (the start anchor, an optional       *)
(* that matches nothing) leave pos unchanged.                              *)
C29_PosIsSliceIndex ==
    pos + Len(chars) = Len(input)

-----------------------------------------------------------------------------
(* count and match_atom on their own (matcher.rs 117-159): the arguments   *)
(* are drawn from bounded sets and each function is applied once.  The     *)
(* atom counted is that of ptrn[1]; the lookahead atom is that of ptrn[2]  *)
(* when ptrn has one, as match_from passes them (matcher.rs 74-75, 97-98). *)

MaxRun == 3

\* A letter, a digit, the underscore, the newline and a punctuation mark.
RunChars == {"a", "1", "_", "\n", "-"}

Runs == SeqsUpTo(RunChars, MaxRun)

\* Every kind of atom; classes empty and not, of both polarities.
RunAtoms ==
    {Digit, W, AnyChar, FromStart, ToEnd,
     Literal("a"), Literal("1"), Literal("\n"),
     ClassSeq(<<>>, TRUE), ClassSeq(<<>>, FALSE),
     ClassSeq(<<Literal("a"), Digit>>, TRUE),
     ClassSeq(<<Literal("a"), Digit>>, FALSE),
     ClassSeq(<<W, Literal("-")>>, FALSE),
     AltGroup(<<>>), AltGroup(<<<<Exact(Literal("a"))>>>>)}

\* The element counted, alone or followed by the element looked ahead at.
RunPatterns ==
    {<<OneOrMore(atom)>> : atom \in RunAtoms}
        \cup {<<OneOrMore(atom), Exact(next)>> : atom, next \in RunAtoms}

InitAtoms ==
    /\ input \in Runs
    /\ pattern \in RunPatterns
    /\ chars = input
    /\ ptrn = pattern
    /\ pos = 0
    /\ allow_unmatched = TRUE
    /\ depth = 0
    /\ site = "entry"
    /\ begun = FALSE
    /\ done = FALSE
    /\ result = None
    /\ CompilerAtRest

\* matcher.rs 142-159: count(chars, atom, maybe_next).
CountRun ==
    /\ ~done
    /\ result' = count(chars, get_atom(ptrn[1]), MaybeNext(ptrn))
    /\ site' = "count"
    /\ done' = TRUE
    /\ UNCHANGED <<input, pattern, chars, ptrn, pos, allow_unmatched, depth,
                   begun, parser_vars>>

\* matcher.rs 117-140: match_atom(&chars[0], atom).
MatchAtom ==
    /\ ~done
    /\ chars # <<>>
    /\ result' = match_atom(chars[1], get_atom(ptrn[1]))
    /\ site' = "match_atom"
    /\ done' = TRUE
    /\ UNCHANGED <<input, pattern, chars, ptrn, pos, allow_unmatched, depth,
                   begun, parser_vars>>

NextAtoms ==
    \/ CountRun
    \/ MatchAtom

SpecAtoms == InitAtoms /\ [][NextAtoms]_vars

-----------------------------------------------------------------------------
(* C25: count(chars, atom, next) always returns Some(k) where, with r the  *)
(* length of the longest prefix of chars whose characters all match atom:  *)
(* k = r when next is absent or equal to atom; otherwise k is the smallest *)
(* j with 1 <= j <= r, j < len(chars) and chars[j] matching next if such a *)
(* j exists, and r if none exists.  In particular 0 <= k <= r, and k >= 1  *)
(* exactly when chars is non-empty and chars[0] matches atom.              *)

\* The least element of a non-empty set of numbers.
Least(S) == CHOOSE j \in S : \A i \in S : j <= i

\* The positions at which the lookahead at `next` stops a run of r; the
\* character chars[j] of the source is cs[j + 1] here.
Stops(cs, next, r) ==
    {j \in 1..r : j < Len(cs) /\ IsSome(match_atom(cs[j + 1], next))}

\* The count the claim states.
StatedCount(cs, atom, maybe_next) ==
    LET r == RunLength(cs, atom)
    IN  IF maybe_next = {} \/ maybe_next = {atom}
        THEN r
        ELSE LET J == Stops(cs, Unwrap(maybe_next), r)
             IN  IF J # {} THEN Least(J) ELSE r

C25_CountStated ==
    site = "count" =>
        LET atom == get_atom(ptrn[1])
            r == RunLength(chars, atom)
        IN  /\ result = Some(StatedCount(chars, atom, MaybeNext(ptrn)))
            /\ \A k \in result :
                  /\ 0 <= k /\ k <= r
                  /\ k >= 1 <=>
                        (chars # <<>> /\ IsSome(match_atom(chars[1], atom)))

\* The lookahead at a different atom has stopped a run before its end.
C25_Witness ==
    /\ site = "count"
    /\ Len(ptrn) = 2
    /\ get_atom(ptrn[2]) # get_atom(ptrn[1])
    /\ \E k \in result :
          /\ k >= 2
          /\ k < RunLength(chars, get_atom(ptrn[1]))

-----------------------------------------------------------------------------
(* C26: match_atom accepts a single character exactly as follows: Digit    *)
(* iff it is an ASCII digit; word character iff it is an ASCII letter,     *)
(* ASCII digit or underscore; Literal(c) iff it equals c; any-char iff it  *)
(* is not newline; a positive class iff at least one member accepts it     *)
(* and a negative class iff no member accepts it (an empty positive class  *)
(* accepts nothing, an empty negative class every character); anchors and  *)
(* alternation groups accept no character.                                 *)

\* The characters a class member (an escape or a literal) accepts.
MemberAccepts(ch, member) ==
    \/ member.kind = "Digit" /\ ch \in AsciiDigit
    \/ member.kind = "W" /\ ch \in AsciiDigit \cup AsciiAlphabetic \cup {"_"}
    \/ member.kind = "Literal" /\ ch = member.c

\* The acceptance the claim states.
Accepts(ch, atom) ==
    \/ MemberAccepts(ch, atom)
    \/ atom.kind = "Any" /\ ch # "\n"
    \/ /\ atom.kind = "Seq"
       /\ atom.positive
       /\ \E i \in 1..Len(atom.cc) : MemberAccepts(ch, atom.cc[i])
    \/ /\ atom.kind = "Seq"
       /\ ~atom.positive
       /\ \A i \in 1..Len(atom.cc) : ~MemberAccepts(ch, atom.cc[i])

C26_MatchAtomStated ==
    site = "match_atom" =>
        LET atom == get_atom(ptrn[1])
        IN  /\ result = (IF Accepts(chars[1], atom) THEN Some(1) ELSE None)
            /\ atom = ClassSeq(<<>>, TRUE) => result = None
            /\ atom = ClassSeq(<<>>, FALSE) => result = Some(1)
            /\ atom.kind \in {"FromStart", "ToEnd", "AltGroup"} =>
                  result = None

\* A negative class with members has accepted a character none of them does.
C26_Witness ==
    /\ site = "match_atom"
    /\ get_atom(ptrn[1]).kind = "Seq"
    /\ ~get_atom(ptrn[1]).positive
    /\ get_atom(ptrn[1]).cc # <<>>
    /\ chars[1] = "\n"
    /\ result = Some(1)

-----------------------------------------------------------------------------
(* The program (main.rs 10-33) and its matcher (pattern.rs 179-339).       *)
(* Pattern::new (pattern.rs 36-176) is the code of parse, parse_primitives,*)
(* parse_atom and quantify of parser.rs line for line, with Atom::Chars    *)
(* for Atom::Seq; the compiler actions above model both.  The input line   *)
(* read at main.rs 22 is not looked at before is_match at main.rs 28, so   *)
(* it is drawn there.                                                      *)

MaxLine == 2

\* Characters of an input line; read_line keeps the line terminator.
LineChars == {"a", "d", "\n"}

Lines == SeqsUpTo(LineChars, MaxLine)

\* A value returned, and the abort of unimplemented!().
Returned(v) == [aborted |-> FALSE, value |-> v]
Aborted == [aborted |-> TRUE]

\* pattern.rs 322-339: Pattern::match_atom.  any() asks the members of a
\* class in order and stops at the first that accepts.
RECURSIVE Pattern_match_atom(_, _)
Pattern_match_atom(in_char, atom) ==
    CASE atom.kind = "Digit" -> Returned(in_char \in AsciiDigit)
      [] atom.kind = "Literal" -> Returned(atom.c = in_char)
      [] atom.kind = "W" ->
           Returned(\/ in_char \in AsciiDigit
                    \/ in_char \in AsciiAlphabetic
                    \/ in_char = "_")
      [] atom.kind = "Seq" ->
           LET answer(i) == Pattern_match_atom(in_char, atom.cc[i])
               decided == {i \in 1..Len(atom.cc) :
                              answer(i).aborted \/ answer(i).value}
           IN  IF decided = {}
               THEN Returned(~atom.positive)
               ELSE LET first == CHOOSE i \in decided :
                                     \A j \in decided : i <= j
                    IN  IF answer(first).aborted
                        THEN Aborted
                        ELSE Returned(atom.positive)
      [] atom.kind = "Any" -> Returned(in_char # "\n")
      [] OTHER -> Aborted

\* pattern.rs 297-318: the loop of Pattern::count.  ci is the index of the
\* character chars.peek() yields, pi that of the element expr.peek() yields.
RECURSIVE CountLoop(_, _, _, _, _, _)
CountLoop(cs, p, curr_atom, counter, ci, pi) ==
    LET stop == [aborted |-> FALSE, counter |-> counter, ci |-> ci, pi |-> pi]
    IN  IF ci > Len(cs)
        THEN stop
        ELSE LET peek == cs[ci]
                 on_curr == Pattern_match_atom(peek, curr_atom)
             IN  IF on_curr.aborted
                 THEN Aborted
                 ELSE IF ~on_curr.value
                 THEN stop
                 ELSE IF pi > Len(p)
                 THEN CountLoop(cs, p, curr_atom, counter + 1, ci + 1, pi)
                 ELSE LET next_atom == get_atom(p[pi])
                          on_next == Pattern_match_atom(peek, next_atom)
                      IN  IF on_next.aborted
                          THEN Aborted
                          ELSE IF on_next.value /\ next_atom # curr_atom
                          THEN stop
                          ELSE CountLoop(cs, p, curr_atom, counter + 1,
                                         ci + 1,
                                         IF next_atom = curr_atom
                                         THEN pi + 1
                                         ELSE pi)

\* pattern.rs 286-320: Pattern::count.
Pattern_count(cs, p, in_char, curr_atom, ci, pi) ==
    LET on_curr == Pattern_match_atom(in_char, curr_atom)
    IN  IF on_curr.aborted
        THEN Aborted
        ELSE IF ~on_curr.value
        THEN [aborted |-> FALSE, counter |-> 0, ci |-> ci, pi |-> pi]
        ELSE CountLoop(cs, p, curr_atom, 1, ci, pi)

\* ptrn_iter.next() at index pi: the element, if any.
NextMatcher(p, pi) == IF pi <= Len(p) THEN {p[pi]} ELSE {}

\* chars_iter.next() at index ci: the character, if any.
NextChar(cs, ci) == IF ci <= Len(cs) THEN {cs[ci]} ELSE {}

\* pattern.rs 267-279: is_final and the value returned after the loop.
AfterLoop(st) ==
    LET is_final ==
          \/ st.maybe_matcher = {Exact(ToEnd)}
          \/ \E matcher \in st.maybe_matcher : matcher.q = "ZeroOrOne"
          \/ st.maybe_matcher = {}
    IN  IF st.found /\ is_final
        THEN Returned(Some(st.consumed))
        ELSE Returned(None)

\* pattern.rs 263-264: maybe_inp_char = chars_iter.next(); i += 1.
Advance(cs, st) ==
    [st EXCEPT !.maybe_inp_char = NextChar(cs, st.ci),
               !.ci = st.ci + 1,
               !.i = st.i + 1]

\* pattern.rs 256-259: after a match the next element becomes the matcher.
AfterMatch(p, st, found) ==
    IF found
    THEN [st EXCEPT !.found = TRUE,
                    !.allow_unmatch = FALSE,
                    !.maybe_matcher = NextMatcher(p, st.pi),
                    !.pi = st.pi + 1]
    ELSE [st EXCEPT !.found = FALSE]

\* pattern.rs 202-265: the loop of Pattern::match_from.
RECURSIVE MatchLoop(_, _, _)
MatchLoop(cs, p, st) ==
    IF st.maybe_inp_char = {} \/ st.maybe_matcher = {}
    THEN AfterLoop(st)
    ELSE IF ~st.allow_unmatch /\ ~st.found
    THEN AfterLoop(st)
    ELSE
    LET inp_char == Unwrap(st.maybe_inp_char)
        matcher == Unwrap(st.maybe_matcher)
        atom == get_atom(matcher)
    IN  CASE matcher.q = "Exact" /\ IsCharAtom(atom) ->
               LET mtch == Pattern_match_atom(inp_char, atom)
               IN  IF mtch.aborted
                   THEN Aborted
                   ELSE MatchLoop(cs, p,
                            Advance(cs,
                                AfterMatch(p,
                                    [st EXCEPT !.consumed =
                                        IF mtch.value THEN @ + 1 ELSE @],
                                    mtch.value)))
          [] matcher = Exact(FromStart) ->
               IF st.i = 0
               THEN MatchLoop(cs, p,
                        [st EXCEPT !.maybe_matcher = NextMatcher(p, st.pi),
                                   !.pi = st.pi + 1,
                                   !.allow_unmatch = FALSE,
                                   !.found = TRUE])
               ELSE AfterLoop(st)
          [] matcher = Exact(ToEnd) ->
               MatchLoop(cs, p, Advance(cs, AfterMatch(p, st, FALSE)))
          [] matcher.q = "Exact" /\ atom.kind = "AltGroup" -> Aborted
          [] matcher.q = "OneOrMore" ->
               LET cnt == Pattern_count(cs, p, inp_char, atom, st.ci, st.pi)
               IN  IF cnt.aborted
                   THEN Aborted
                   ELSE MatchLoop(cs, p,
                            Advance(cs,
                                AfterMatch(p,
                                    [st EXCEPT !.consumed = @ + cnt.counter,
                                               !.ci = cnt.ci,
                                               !.pi = cnt.pi],
                                    cnt.counter >= 1)))
          [] matcher.q = "ZeroOrOne" ->
               LET cnt == Pattern_count(cs, p, inp_char, atom, st.ci, st.pi)
               IN  IF cnt.aborted
                   THEN Aborted
                   ELSE LET mtch == cnt.counter <= 1
                            counted ==
                              [st EXCEPT !.consumed = @ + cnt.counter,
                                         !.ci = cnt.ci,
                                         !.pi = cnt.pi]
                            at_end ==
                              IF mtch /\ cnt.ci > Len(cs)
                              THEN [counted EXCEPT
                                      !.consumed = @ + 1,
                                      !.maybe_matcher =
                                          NextMatcher(p, cnt.pi),
                                      !.pi = cnt.pi + 1]
                              ELSE counted
                        IN  MatchLoop(cs, p,
                                Advance(cs, AfterMatch(p, at_end, mtch)))

\* pattern.rs 179-280: Pattern::match_from(pattern, input).
Pattern_match_from(p, cs) ==
    IF p = <<>>
    THEN Returned(None)
    ELSE IF cs = <<>>
    THEN IF p[1].q = "ZeroOrOne"
         THEN Returned(Some(0))
         ELSE Returned(None)
    ELSE MatchLoop(cs, p,
             [consumed |-> 0, found |-> FALSE, allow_unmatch |-> TRUE,
              i |-> 0, ci |-> 2, pi |-> 2,
              maybe_matcher |-> {p[1]}, maybe_inp_char |-> {cs[1]}])

\* The program before it compiles its pattern argument (main.rs 19-24).
InitMain ==
    /\ text \in Texts
    /\ CompilerStarts
    /\ outcome = "running"
    /\ input = <<>>
    /\ pattern = <<>>
    /\ chars = <<>>
    /\ ptrn = <<>>
    /\ pos = 0
    /\ allow_unmatched = TRUE
    /\ depth = 0
    /\ site = "main"
    /\ begun = FALSE
    /\ done = FALSE
    /\ result = None

\* main.rs 28-32 with pattern.rs 282-284: the compiled pattern is matched
\* against the input line and the process exits with 0 or 1, unless the
\* matcher aborts.
MainIsMatch ==
    /\ ~done
    /\ outcome = "Ok"
    /\ \E line \in Lines :
          LET found == Pattern_match_from(body, line)
          IN  /\ input' = line
              /\ chars' = line
              /\ pattern' = body
              /\ ptrn' = body
              /\ result' = IF found.aborted THEN None ELSE found.value
              /\ site' = IF found.aborted
                         THEN "unimplemented"
                         ELSE IF IsSome(found.value)
                              THEN "exit(0)"
                              ELSE "exit(1)"
    /\ done' = TRUE
    /\ UNCHANGED <<pos, allow_unmatched, depth, begun, parser_vars>>

\* main.rs 24-26: the pattern does not compile, main panics.
MainPanics ==
    /\ ~done
    /\ outcome \in {"InvalidGroup", "InvalidCharClass", "NoClassFound"}
    /\ site' = "panic"
    /\ done' = TRUE
    /\ UNCHANGED <<input, pattern, chars, ptrn, pos, allow_unmatched, depth,
                   begun, result, parser_vars>>

NextMain ==
    \/ NextParse
    \/ MainIsMatch
    \/ MainPanics

SpecMain == InitMain /\ [][NextMain]_vars

-----------------------------------------------------------------------------
(* C24: the program decides every accepted pattern.  For every pattern     *)
(* that Pattern::new accepts and every input line, Pattern::is_match       *)
(* returns true or false without aborting: no unimplemented!() is          *)
(* reachable from it, alternation groups and quantified atoms followed by  *)
(* an anchor included.                                                     *)
C24_IsMatchDecides ==
    (done /\ outcome = "Ok") => site \in {"exit(0)", "exit(1)"}

-----------------------------------------------------------------------------
(* C30: the two matchers agree on group-free patterns.  For every pattern  *)
(* text without '(' that compiles and every input line, the iterative      *)
(* Pattern::match_from returns Some exactly when the recursive             *)
(* match_from(chars, pattern, 0, true) does; the empty pattern, the empty  *)
(* input and patterns ending in an optional atom or in the end anchor      *)
(* included.  The formula leaves out the runs in which the iterative       *)
(* matcher aborts (C24), where it returns nothing to compare.              *)
C30_MatchersAgree ==
    (/\ done
     /\ outcome = "Ok"
     /\ site \in {"exit(0)", "exit(1)"}
     /\ \A k \in 1..Len(text) : text[k] # "(") =>
        (IsSome(result) <=> IsSome(match_from(input, pattern, 0, TRUE)))

====
